---- MODULE Spec2Model ----
(***************************************************************************)
(* A model of chia/rpc/rpc_client.py: the RpcClient handle, its request    *)
(* dispatcher fetch() with the bounded retry on 404, the endpoint         *)
(* bindings built on it, and the close() / await_closed() shutdown pair.   *)
(*                                                                         *)
(* Environment assumptions, stated once:                                   *)
(*  - open(id, "a") raises FileNotFoundError when id is the empty string   *)
(*    (no file has the empty name) and succeeds for the non-empty ids of   *)
(*    the model (a writable log path).                                     *)
(*  - aiohttp's ClientResponse.raise_for_status() raises exactly when the  *)
(*    status is 400 or above.                                              *)
(*  - when an awaited session.close() returns, the session is closed.      *)
(*  - hexstr_to_bytes (chia/util/byte_types.py) decodes pairs of hex       *)
(*    digits of either case and raises ValueError on any other string.     *)
(***************************************************************************)
EXTENDS Integers, Sequences, FiniteSets, TLC

\* ------------------------------------------------------------------ bounds
MaxCloses == 3       \* close() calls explored on one handle
MaxAwaits == 2       \* await_closed() calls explored on one handle
MaxConns == 2        \* connection records in one get_connections result

\* ------------------------------------------------------------ data domains
Calls == {"c1", "c2"}          \* fetch() invocations on the handle
Dispatching == {"c1"}          \* the invocation run by the sequential Spec

Ids == {"", "log"}             \* correlation ids: the default and a log path

Statuses == {101, 200, 204, 304, 404, 500}

Absent == "absent"             \* marks a key the JSON object does not have

\* A response body: json says whether it decodes as a JSON object; success
\* and x are the values of those keys, or Absent.
Bodies ==
    [json : {TRUE}, success : {"true", "false", "null", Absent}, x : {"1", Absent}]
        \cup {[json |-> FALSE, success |-> Absent, x |-> Absent]}

NoBody == [json |-> FALSE, success |-> Absent, x |-> Absent]

NoResponse == [status |-> 0, body |-> NoBody]

Responses == [status : Statuses, body : Bodies]

\* ------------------------------------------------------------------- state
VARIABLES
    handle,        \* "none" | "ready" | "failed": outcome of RpcClient.create
    session,       \* "none" | "open" | "closing" | "closed": self.session
    closing_task,  \* self.closing_task: 0 is None, else an index into tasks
    tasks,         \* the asyncio tasks made by close(), each
                   \*   "scheduled" | "running" | "done"
    pcA,           \* a caller of await_closed(): "idle" | "waiting" | "returned"
    awaited,       \* the task that caller awaits (0: none)
    nAwaits,       \* await_closed() calls made so far
    pc,            \* per call: "idle" | "post" | "await" | "sleep" | "done"
    id,            \* per call: the id argument
    retry,         \* per call: the loop variable retry
    posts,         \* per call: POSTs issued
    waits,         \* per call: asyncio.sleep calls made
    slept,         \* per call: seconds slept in total
    resp,          \* per call: the last response received
    decoded,       \* per call: whether response.json() was called
    opens,         \* per call: open(id, "a") calls made
    logs,          \* per call: lines appended to the file named id
    result,        \* per call: how the call ended
    binding,       \* the endpoint binding called: "none" or its name
    bpc,           \* that binding: "idle" | "fetching" | "done"
    wire,          \* the "connections" value of the envelope the server sends
    fetchCalls,    \* self.fetch calls made by the binding
    nDecoded,      \* hexstr_to_bytes calls made by the binding
    bresult        \* how the binding ended

lifeVars == <<handle, session, closing_task, tasks, pcA, awaited, nAwaits>>
callVars == <<pc, id, retry, posts, waits, slept, resp, decoded, opens, logs, result>>
bindVars == <<binding, bpc, wire, fetchCalls, nDecoded, bresult>>
vars == <<handle, session, closing_task, tasks, pcA, awaited, nAwaits,
          pc, id, retry, posts, waits, slept, resp, decoded, opens, logs, result,
          binding, bpc, wire, fetchCalls, nDecoded, bresult>>

\* --------------------------------------------------------- results of fetch
NoResult == [kind |-> "none", status |-> 0, retries |-> 0, payload |-> NoBody]

\* return res_json
Returned(env) == [kind |-> "return", status |-> 0, retries |-> 0, payload |-> env]

\* aiohttp.ClientResponseError raised by response.raise_for_status()
HTTPStatusError(status) ==
    [kind |-> "ClientResponseError", status |-> status, retries |-> 0, payload |-> NoBody]

\* raise ValueError(res_json)
ValueError(env) == [kind |-> "ValueError", status |-> 0, retries |-> 0, payload |-> env]

\* raise Exception(f"took {retry} retries: {res_json}")
RetryAnomaly(k, env) ==
    [kind |-> "TookRetries", status |-> 0, retries |-> k, payload |-> env]

\* open("", "a") raises FileNotFoundError
FileNotFoundError ==
    [kind |-> "FileNotFoundError", status |-> 0, retries |-> 0, payload |-> NoBody]

\* res_json["success"] on an object without that key
KeyError == [kind |-> "KeyError", status |-> 0, retries |-> 0, payload |-> NoBody]

\* response.json() on a body that is not JSON
DecodeError == [kind |-> "DecodeError", status |-> 0, retries |-> 0, payload |-> NoBody]

\* the for loop runs out and the function ends without a return statement
ReturnedNone == [kind |-> "return None", status |-> 0, retries |-> 0, payload |-> NoBody]

\* ------------------------------------------------------- helpers of fetch
\* Variant: one attempt too many.
retriesWide == 0 .. 5

\* retries = range(5)
retries == 0 .. 4

\* retries[-1]
LastRetry == CHOOSE r \in retries : \A q \in retries : q <= r

\* await asyncio.sleep(1)
SleepSeconds == 1

\* open(id, "a"): fails on the empty file name
OpenFails(i) == i = ""

\* if retry == 0 and id != "":
LogsFirstAttempt(r, i) == r = 0 /\ i # ""

\* Variants: every error status retried; the final attempt retried too.
IsRetriedAnyError(status, r) == status >= 400 /\ r # LastRetry
IsRetriedAlways(status, r) == status = 404

\* if response.status == 404 and retry != retries[-1]:
IsRetried(status, r) == status = 404 /\ r # LastRetry

\* Variant: every status outside 200..299 raises.
RaisesNon2xx(status) == status < 200 \/ status > 299

\* response.raise_for_status(): aiohttp raises for a status of 400 or above
RaisesForStatus(status) == status >= 400

\* Variant: a lookup with a default, res_json.get("success", True).
LacksSuccessNever(env) == FALSE

\* res_json["success"] raises KeyError when the key is missing
LacksSuccess(env) == env.success = Absent

\* Variant: the success test dropped.
TruthyAlways(v) == TRUE

\* not res_json["success"]: Python truth of the JSON value
Truthy(v) == v \notin {"false", "null"}

\* Variants: the retry test dropped; the retry test inverted.
IsAnomalyNever(r) == FALSE
IsAnomalyInverted(r) == r = 0

\* if retry != 0:
IsAnomaly(r) == r # 0

\* The part of the loop body after the retry test (lines 58-64).
Settle(r, response) ==
    IF RaisesForStatus(response.status) THEN HTTPStatusError(response.status)
    ELSE IF ~response.body.json THEN DecodeError
    ELSE IF LacksSuccess(response.body) THEN KeyError
    ELSE IF ~Truthy(response.body.success) THEN ValueError(response.body)
    ELSE IF IsAnomaly(r) THEN RetryAnomaly(r, response.body)
    ELSE Returned(response.body)

\* Whether lines 58-64 reach response.json().
Decodes(response) == ~RaisesForStatus(response.status)

\* ------------------------------------------------------ endpoint bindings
Bindings ==
    {"get_connections", "open_connection", "close_connection", "stop_node", "healthz"}

\* node_id strings the server may send, as sequences of characters: lower
\* case, upper case, mixed, of odd length, and with a character that is no
\* hex digit.
NodeIdStrings ==
    {<<"0", "a">>, <<"A", "f">>, <<"f", "F", "1", "0">>, <<"a">>, <<"g", "0">>}

\* The value of response["connections"], each record reduced to its node_id;
\* present is FALSE when the envelope has no such key.
NoWire == [present |-> FALSE, ids |-> <<>>]
Wires ==
    {NoWire} \cup
    {[present |-> TRUE, ids |-> w] :
        w \in UNION {[1 .. n -> NodeIdStrings] : n \in 0 .. MaxConns}}

LowerDigits ==
    <<"0", "1", "2", "3", "4", "5", "6", "7", "8", "9", "a", "b", "c", "d", "e", "f">>
UpperDigits ==
    <<"0", "1", "2", "3", "4", "5", "6", "7", "8", "9", "A", "B", "C", "D", "E", "F">>

IsHexDigit(ch) == \E k \in 1 .. 16 : LowerDigits[k] = ch \/ UpperDigits[k] = ch

\* The value of a hex digit of either case.
HexVal(ch) == (CHOOSE k \in 1 .. 16 : LowerDigits[k] = ch \/ UpperDigits[k] = ch) - 1

\* Whether hexstr_to_bytes accepts the string: pairs of hex digits.
IsHexString(str) ==
    /\ Len(str) % 2 = 0
    /\ \A k \in 1 .. Len(str) : IsHexDigit(str[k])

\* hexstr_to_bytes: one byte per pair of digits.
hexstr_to_bytes(str) ==
    [k \in 1 .. (Len(str) \div 2) |-> 16 * HexVal(str[2 * k - 1]) + HexVal(str[2 * k])]

\* bytes.hex(): two lower-case digits per byte.
BytesToHex(bytes) ==
    [k \in 1 .. 2 * Len(bytes) |->
        IF k % 2 = 1 THEN LowerDigits[(bytes[(k + 1) \div 2] \div 16) + 1]
        ELSE LowerDigits[(bytes[k \div 2] % 16) + 1]]

\* A node_id of a returned record: still the string of the wire, or bytes.
AsString(str) == [decoded |-> FALSE, hex |-> str, bytes |-> <<>>]
AsBytes(bytes) == [decoded |-> TRUE, hex |-> <<>>, bytes |-> bytes]

\* bytes.fromhex raises ValueError on a string that is not hex
HexValueError ==
    [kind |-> "HexValueError", status |-> 0, retries |-> 0, payload |-> NoBody]

\* How a binding ends.
NoOutcome == [kind |-> "none", error |-> NoResult, env |-> NoBody, conns |-> <<>>]
Raises(err) == [kind |-> "raise", error |-> err, env |-> NoBody, conns |-> <<>>]
ReturnsEnvelope(env) == [kind |-> "return", error |-> NoResult, env |-> env, conns |-> <<>>]
ReturnsConnections(cs) == [kind |-> "return", error |-> NoResult, env |-> NoBody, conns |-> cs]

\* Variant: the loop over the records stopping one record early.
DecodeAllButLast(ids) ==
    [k \in 1 .. Len(ids) |->
        IF k < Len(ids) THEN AsBytes(hexstr_to_bytes(ids[k])) ELSE AsString(ids[k])]

\* for connection in response["connections"]:
\*     connection["node_id"] = hexstr_to_bytes(connection["node_id"])
DecodeAll(ids) == [k \in 1 .. Len(ids) |-> AsBytes(hexstr_to_bytes(ids[k]))]

\* Records decoded before the loop ends or hexstr_to_bytes raises.
DecodeCalls(ids) ==
    IF \A k \in 1 .. Len(ids) : IsHexString(ids[k]) THEN Len(ids)
    ELSE CHOOSE k \in 1 .. Len(ids) :
             /\ ~IsHexString(ids[k])
             /\ \A j \in 1 .. k - 1 : IsHexString(ids[j])

\* Variant: a failure of fetch answered with an empty envelope.
FinishSwallowing(b, res, w) ==
    IF res.kind # "return" THEN [out |-> ReturnsEnvelope(NoBody), n |-> 0]
    ELSE [out |-> ReturnsEnvelope(res.payload), n |-> 0]

\* What a binding does with the outcome res of its fetch call: an exception
\* of fetch propagates; get_connections decodes the records and returns the
\* list; the other bindings return what fetch returned.
Finish(b, res, w) ==
    IF res.kind # "return" THEN [out |-> Raises(res), n |-> 0]
    ELSE IF b # "get_connections" THEN [out |-> ReturnsEnvelope(res.payload), n |-> 0]
    ELSE IF ~w.present THEN [out |-> Raises(KeyError), n |-> 0]
    ELSE IF \E k \in 1 .. Len(w.ids) : ~IsHexString(w.ids[k])
         THEN [out |-> Raises(HexValueError), n |-> DecodeCalls(w.ids)]
    ELSE [out |-> ReturnsConnections(DecodeAll(w.ids)), n |-> DecodeCalls(w.ids)]

\* ------------------------------------------------------------------- Init
Init ==
    /\ handle = "none"
    /\ session = "none"
    /\ closing_task = 0
    /\ tasks = <<>>
    /\ pcA = "idle"
    /\ awaited = 0
    /\ nAwaits = 0
    /\ pc = [c \in Calls |-> "idle"]
    /\ id = [c \in Calls |-> ""]
    /\ retry = [c \in Calls |-> 0]
    /\ posts = [c \in Calls |-> 0]
    /\ waits = [c \in Calls |-> 0]
    /\ slept = [c \in Calls |-> 0]
    /\ resp = [c \in Calls |-> NoResponse]
    /\ decoded = [c \in Calls |-> FALSE]
    /\ opens = [c \in Calls |-> 0]
    /\ logs = [c \in Calls |-> <<>>]
    /\ result = [c \in Calls |-> NoResult]
    /\ binding = "none"
    /\ bpc = "idle"
    /\ wire = NoWire
    /\ fetchCalls = 0
    /\ nDecoded = 0
    /\ bresult = NoOutcome

\* ------------------------------------------------------------ construction
\* RpcClient.create: the session is opened (line 37) before the TLS context
\* is built (line 41); ssl_context_for_client raises on missing or invalid
\* certificate material.
Create(tlsOk) ==
    /\ handle = "none"
    /\ session' = "open"
    /\ handle' = IF tlsOk THEN "ready" ELSE "failed"
    /\ closing_task' = 0
    /\ UNCHANGED <<tasks, pcA, awaited, nAwaits>>
    /\ UNCHANGED callVars
    /\ UNCHANGED bindVars

\* ------------------------------------------------------------------ fetch
\* fetch(path, request_json, id): entry, up to the first loop iteration.
Fetch(c, i) ==
    /\ handle = "ready"
    /\ session = "open"
    /\ pc[c] = "idle"
    /\ id' = [id EXCEPT ![c] = i]
    /\ retry' = [retry EXCEPT ![c] = 0]
    /\ pc' = [pc EXCEPT ![c] = "post"]
    /\ UNCHANGED <<posts, waits, slept, resp, decoded, opens, logs, result>>
    /\ UNCHANGED lifeVars
    /\ UNCHANGED bindVars

\* Variant: the POST counted in a counter shared by the calls of the handle.
PostShared(c) ==
    /\ pc[c] = "post"
    /\ posts' = [d \in Calls |-> posts[d] + 1]
    /\ pc' = [pc EXCEPT ![c] = "await"]
    /\ UNCHANGED <<id, retry, waits, slept, resp, decoded, opens, logs, result>>
    /\ UNCHANGED lifeVars
    /\ UNCHANGED bindVars

\* self.session.post(url, json=request_json, ssl_context=self.ssl_context)
Post(c) ==
    /\ pc[c] = "post"
    /\ posts' = [posts EXCEPT ![c] = @ + 1]
    /\ pc' = [pc EXCEPT ![c] = "await"]
    /\ UNCHANGED <<id, retry, waits, slept, resp, decoded, opens, logs, result>>
    /\ UNCHANGED lifeVars
    /\ UNCHANGED bindVars

\* The body of the async with block, run when the response arrives, up to
\* the sleep, the return or the raise.
Respond(c, response) ==
    /\ pc[c] = "await"
    /\ resp' = [resp EXCEPT ![c] = response]
    /\ LET first == IF LogsFirstAttempt(retry[c], id[c]) THEN <<"fetch">> ELSE <<>>
       IN
       IF IsRetried(response.status, retry[c])
       THEN /\ opens' = [opens EXCEPT ![c] = @ + Len(first) + 1]
            /\ IF OpenFails(id[c])
               THEN /\ result' = [result EXCEPT ![c] = FileNotFoundError]
                    /\ pc' = [pc EXCEPT ![c] = "done"]
                    /\ logs' = [logs EXCEPT ![c] = @ \o first]
                    /\ UNCHANGED decoded
               ELSE /\ logs' = [logs EXCEPT ![c] = @ \o first \o <<"404">>]
                    /\ pc' = [pc EXCEPT ![c] = "sleep"]
                    /\ UNCHANGED <<result, decoded>>
       ELSE /\ opens' = [opens EXCEPT ![c] = @ + Len(first)]
            /\ result' = [result EXCEPT ![c] = Settle(retry[c], response)]
            /\ decoded' = [decoded EXCEPT ![c] = Decodes(response)]
            /\ pc' = [pc EXCEPT ![c] = "done"]
            /\ logs' = [logs EXCEPT ![c] = @ \o first]
    /\ UNCHANGED <<id, retry, posts, waits, slept>>
    /\ UNCHANGED lifeVars
    /\ UNCHANGED bindVars

\* Variant: a backoff that grows with the attempt index.
WakeBackoff(c) ==
    /\ pc[c] = "sleep"
    /\ waits' = [waits EXCEPT ![c] = @ + 1]
    /\ slept' = [slept EXCEPT ![c] = @ + SleepSeconds * (retry[c] + 1)]
    /\ IF retry[c] + 1 \in retries
       THEN /\ retry' = [retry EXCEPT ![c] = @ + 1]
            /\ pc' = [pc EXCEPT ![c] = "post"]
            /\ UNCHANGED result
       ELSE /\ result' = [result EXCEPT ![c] = ReturnedNone]
            /\ pc' = [pc EXCEPT ![c] = "done"]
            /\ UNCHANGED retry
    /\ UNCHANGED <<id, posts, resp, decoded, opens, logs>>
    /\ UNCHANGED lifeVars
    /\ UNCHANGED bindVars

\* await asyncio.sleep(1) elapses; continue takes the next value of the
\* range, and a range that has run out ends the function.
Wake(c) ==
    /\ pc[c] = "sleep"
    /\ waits' = [waits EXCEPT ![c] = @ + 1]
    /\ slept' = [slept EXCEPT ![c] = @ + SleepSeconds]
    /\ IF retry[c] + 1 \in retries
       THEN /\ retry' = [retry EXCEPT ![c] = @ + 1]
            /\ pc' = [pc EXCEPT ![c] = "post"]
            /\ UNCHANGED result
       ELSE /\ result' = [result EXCEPT ![c] = ReturnedNone]
            /\ pc' = [pc EXCEPT ![c] = "done"]
            /\ UNCHANGED retry
    /\ UNCHANGED <<id, posts, resp, decoded, opens, logs>>
    /\ UNCHANGED lifeVars
    /\ UNCHANGED bindVars

\* --------------------------------------------------------------- shutdown
\* close(): asyncio.create_task only schedules session.close(); the new task
\* replaces whatever closing_task held.
Close ==
    /\ handle = "ready"
    /\ Len(tasks) < MaxCloses
    /\ tasks' = Append(tasks, "scheduled")
    /\ closing_task' = Len(tasks) + 1
    /\ UNCHANGED <<handle, session, pcA, awaited, nAwaits>>
    /\ UNCHANGED callVars
    /\ UNCHANGED bindVars

\* The event loop starts a scheduled task: session.close() begins.
TaskStart(t) ==
    /\ t \in 1 .. Len(tasks)
    /\ tasks[t] = "scheduled"
    /\ tasks' = [tasks EXCEPT ![t] = "running"]
    /\ session' = IF session = "open" THEN "closing" ELSE session
    /\ UNCHANGED <<handle, closing_task, pcA, awaited, nAwaits>>
    /\ UNCHANGED callVars
    /\ UNCHANGED bindVars

\* session.close() returns in task t: the session is closed, the task done.
TaskFinish(t) ==
    /\ t \in 1 .. Len(tasks)
    /\ tasks[t] = "running"
    /\ tasks' = [tasks EXCEPT ![t] = "done"]
    /\ session' = "closed"
    /\ UNCHANGED <<handle, closing_task, pcA, awaited, nAwaits>>
    /\ UNCHANGED callVars
    /\ UNCHANGED bindVars

\* Variant: await_closed() returning without awaiting the task.
AwaitClosedNoTest ==
    /\ handle = "ready"
    /\ pcA \in {"idle", "returned"}
    /\ nAwaits < MaxAwaits
    /\ nAwaits' = nAwaits + 1
    /\ awaited' = closing_task
    /\ pcA' = "returned"
    /\ UNCHANGED <<handle, session, closing_task, tasks>>
    /\ UNCHANGED callVars
    /\ UNCHANGED bindVars

\* await_closed(): nothing to wait for when closing_task is None; awaiting a
\* task that is already done does not suspend.
AwaitClosed ==
    /\ handle = "ready"
    /\ pcA \in {"idle", "returned"}
    /\ nAwaits < MaxAwaits
    /\ nAwaits' = nAwaits + 1
    /\ awaited' = closing_task
    /\ pcA' = IF closing_task = 0 \/ tasks[closing_task] = "done"
              THEN "returned" ELSE "waiting"
    /\ UNCHANGED <<handle, session, closing_task, tasks>>
    /\ UNCHANGED callVars
    /\ UNCHANGED bindVars

\* The awaited task completes and await_closed() resumes and returns.
AwaitResume ==
    /\ pcA = "waiting"
    /\ tasks[awaited] = "done"
    /\ pcA' = "returned"
    /\ UNCHANGED <<handle, session, closing_task, tasks, awaited, nAwaits>>
    /\ UNCHANGED callVars
    /\ UNCHANGED bindVars

\* ------------------------------------------------------ binding actions
\* A binding is called: it builds its request and calls self.fetch with the
\* default id; w is the connections value the server will send.
Bind(b, c, w) ==
    /\ handle = "ready"
    /\ session = "open"
    /\ binding = "none"
    /\ pc[c] = "idle"
    /\ b # "get_connections" => w = NoWire
    /\ binding' = b
    /\ wire' = w
    /\ bpc' = "fetching"
    /\ fetchCalls' = fetchCalls + 1
    /\ id' = [id EXCEPT ![c] = ""]
    /\ retry' = [retry EXCEPT ![c] = 0]
    /\ pc' = [pc EXCEPT ![c] = "post"]
    /\ UNCHANGED <<nDecoded, bresult>>
    /\ UNCHANGED <<posts, waits, slept, resp, decoded, opens, logs, result>>
    /\ UNCHANGED lifeVars

\* The fetch call of the binding has ended and the binding ends.
Resume(c) ==
    /\ bpc = "fetching"
    /\ pc[c] = "done"
    /\ bresult' = Finish(binding, result[c], wire).out
    /\ nDecoded' = Finish(binding, result[c], wire).n
    /\ bpc' = "done"
    /\ UNCHANGED <<binding, wire, fetchCalls>>
    /\ UNCHANGED callVars
    /\ UNCHANGED lifeVars

\* --------------------------------------------------------- specifications
\* One fetch call on a constructed handle.
Next ==
    \/ \E ok \in BOOLEAN : Create(ok)
    \/ \E c \in Dispatching, i \in Ids : Fetch(c, i)
    \/ \E c \in Dispatching : Post(c)
    \/ \E c \in Dispatching, r \in Responses : Respond(c, r)
    \/ \E c \in Dispatching : Wake(c)

Spec == Init /\ [][Next]_vars

\* The same, with every POST answered and every sleep elapsing.
Fairness ==
    \A c \in Dispatching :
        /\ WF_vars(Post(c))
        /\ WF_vars(\E r \in Responses : Respond(c, r))
        /\ WF_vars(Wake(c))

SpecFair == Init /\ [][Next]_vars /\ Fairness

\* Concurrent fetch calls on one constructed handle.
NextConcurrent ==
    \/ \E ok \in BOOLEAN : Create(ok)
    \/ \E c \in Calls, i \in Ids : Fetch(c, i)
    \/ \E c \in Calls : Post(c)
    \/ \E c \in Calls, r \in Responses : Respond(c, r)
    \/ \E c \in Calls : Wake(c)

SpecConcurrent == Init /\ [][NextConcurrent]_vars

\* One endpoint binding called on a constructed handle. fetch is entered
\* with the default id, under which it never reaches its sleep.
NextBindings ==
    \/ \E ok \in BOOLEAN : Create(ok)
    \/ \E b \in Bindings, c \in Dispatching, w \in Wires : Bind(b, c, w)
    \/ \E c \in Dispatching : Post(c)
    \/ \E c \in Dispatching, r \in Responses : Respond(c, r)
    \/ \E c \in Dispatching : Resume(c)

SpecBindings == Init /\ [][NextBindings]_vars

\* Construction and shutdown of a handle.
NextLifecycle ==
    \/ \E ok \in BOOLEAN : Create(ok)
    \/ Close
    \/ \E t \in 1 .. MaxCloses + 1 : TaskStart(t)
    \/ \E t \in 1 .. MaxCloses + 1 : TaskFinish(t)
    \/ AwaitClosed
    \/ AwaitResume

SpecLifecycle == Init /\ [][NextLifecycle]_vars

\* ------------------------------------------------------------- properties
Is2xx(status) == status \in 200 .. 299

\* The response of attempt retry[c] has been handled.
Handled(c) == pc[c] \in {"sleep", "done"}

\* The handled response is a 2xx whose JSON object has success = v.
Got2xx(c, v) ==
    /\ Handled(c)
    /\ Is2xx(resp[c].status)
    /\ resp[c].body.json
    /\ resp[c].body.success = v

\* C1: a 2xx response with success = true received on attempt k, 1 <= k <= 4,
\* ends the call with the retry-anomaly error carrying k and the decoded
\* envelope; an envelope is returned from attempt 0 only.
C1_DelayedSuccessIsAnomaly ==
    \A c \in Calls :
        /\ (Got2xx(c, "true") /\ retry[c] \in 1 .. 4) =>
               /\ pc[c] = "done"
               /\ result[c] = RetryAnomaly(retry[c], resp[c].body)
        /\ result[c].kind = "return" => retry[c] = 0

C1_Witness ==
    \E c \in Calls :
        /\ Got2xx(c, "true")
        /\ resp[c].status = 200
        /\ retry[c] = 4
        /\ posts[c] = 5
        /\ result[c] = RetryAnomaly(4, resp[c].body)

\* C2: for every correlation id, the empty one included, a 404 on attempt i,
\* 0 <= i <= 3, does not end the call: the call sleeps, and a later attempt
\* is reached after one 1-second sleep per earlier attempt.
C2_NotFoundIsRetried ==
    \A c \in Calls :
        /\ (Handled(c) /\ resp[c].status = 404 /\ retry[c] \in 0 .. 3) =>
               /\ pc[c] = "sleep"
               /\ result[c] = NoResult
        /\ pc[c] \in {"post", "await"} =>
               /\ waits[c] = retry[c]
               /\ slept[c] = retry[c]

\* C3: one POST per attempt and at most 5 attempts, indexed 0..4.
C3_OnePostPerAttempt ==
    \A c \in Calls :
        /\ retry[c] \in 0 .. 4
        /\ posts[c] <= 5
        /\ posts[c] = IF pc[c] \in {"idle", "post"} THEN retry[c] ELSE retry[c] + 1

C3_Witness ==
    \E c \in Calls : posts[c] = 5 /\ retry[c] = 4 /\ pc[c] = "done"

\* C4: a 2xx response with success = true on attempt 0 is returned as it was
\* decoded, after one POST and no sleep.
C4_FirstAttemptSuccess ==
    \A c \in Calls :
        (Got2xx(c, "true") /\ retry[c] = 0) =>
            /\ pc[c] = "done"
            /\ result[c] = Returned(resp[c].body)
            /\ posts[c] = 1
            /\ waits[c] = 0
            /\ slept[c] = 0

C4_Witness ==
    \E c \in Calls :
        /\ retry[c] = 0
        /\ resp[c] = [status |-> 200,
                      body |-> [json |-> TRUE, success |-> "true", x |-> "1"]]
        /\ result[c] = Returned([json |-> TRUE, success |-> "true", x |-> "1"])

\* C5: a 2xx response with success = false, on any attempt, ends the call
\* with the semantic error carrying the decoded envelope; on attempts k >= 1
\* it is this error and not the retry-anomaly error.
C5_FalseSuccessIsSemanticError ==
    \A c \in Calls :
        Got2xx(c, "false") =>
            /\ pc[c] = "done"
            /\ result[c] = ValueError(resp[c].body)
            /\ posts[c] = retry[c] + 1

C5_Witness ==
    \E c \in Calls :
        /\ Got2xx(c, "false")
        /\ retry[c] >= 1
        /\ result[c] = ValueError(resp[c].body)

\* The handled response is neither a 404 with attempts left nor a 404 that
\* the empty id turned into a failed open().
NotRetried(c) == Handled(c) /\ ~(resp[c].status = 404 /\ retry[c] # 4)

\* C6 as claimed: every status outside 200..299, other than a 404 on a
\* non-final attempt, ends the call with the HTTP-status error carrying that
\* status, the body not decoded.
C6_Non2xxRaises ==
    \A c \in Calls :
        (NotRetried(c) /\ ~Is2xx(resp[c].status)) =>
            /\ result[c] = HTTPStatusError(resp[c].status)
            /\ ~decoded[c]

\* C6 as amended: every status of 400 or above, other than a 404 on a
\* non-final attempt, ends the call with the HTTP-status error carrying that
\* status, the body not decoded; a status below 400 outside 200..299 raises
\* no HTTP-status error: its body is decoded and handled as a 2xx body is.
C6_ErrorStatusRaises ==
    \A c \in Calls :
        NotRetried(c) =>
            /\ resp[c].status >= 400 =>
                   /\ pc[c] = "done"
                   /\ result[c] = HTTPStatusError(resp[c].status)
                   /\ ~decoded[c]
            /\ resp[c].status < 400 =>
                   /\ decoded[c]
                   /\ result[c].kind \in
                          {"return", "ValueError", "TookRetries", "KeyError", "DecodeError"}

C6_Witness ==
    \E c \in Calls :
        /\ NotRetried(c)
        /\ resp[c].status = 500
        /\ resp[c].body.json
        /\ result[c] = HTTPStatusError(500)
        /\ ~decoded[c]

\* C7: only a 404 on attempts 0..3 is followed by another attempt: any other
\* response ends the call at its attempt, and an ended call issues no POST
\* and makes no sleep.
C7_OnlyNotFoundContinues ==
    [][\A c \in Calls :
          /\ (pc[c] = "await" /\ pc'[c] # "await"
                 /\ ~(resp'[c].status = 404 /\ retry[c] \in 0 .. 3)) =>
                 /\ pc'[c] = "done"
                 /\ posts'[c] = retry[c] + 1
                 /\ waits'[c] = retry[c]
          /\ pc[c] = "done" =>
                 /\ pc'[c] = "done"
                 /\ posts'[c] = posts[c]
                 /\ waits'[c] = waits[c]
          /\ (posts'[c] # posts[c] \/ waits'[c] # waits[c]) =>
                 \/ resp[c] = NoResponse
                 \/ resp[c].status = 404 /\ retry[c] \in 0 .. 4
      ]_vars

C7_Witness ==
    \E c \in Calls :
        /\ pc[c] = "done"
        /\ resp[c].status = 500
        /\ retry[c] = 2
        /\ posts[c] = 3
        /\ waits[c] = 2

\* C8 as claimed: a 2xx response on attempt 0 whose envelope has no success
\* field is returned as a success.
C8_MissingSuccessReturned ==
    \A c \in Calls :
        (Got2xx(c, Absent) /\ retry[c] = 0) =>
            /\ pc[c] = "done"
            /\ result[c] = Returned(resp[c].body)

\* C8 as amended: a 2xx response on attempt 0 whose envelope has no success
\* field ends the call with the key-lookup error of reading that field, and
\* the envelope is not returned; an envelope whose success field is true is
\* returned, and one whose success field is false gives the semantic error.
C8_MissingSuccessIsKeyError ==
    \A c \in Calls :
        /\ (Got2xx(c, Absent) /\ retry[c] = 0) =>
               /\ pc[c] = "done"
               /\ result[c] = KeyError
        /\ (Got2xx(c, "true") /\ retry[c] = 0) => result[c].kind = "return"
        /\ (Got2xx(c, "false") /\ retry[c] = 0) => result[c].kind = "ValueError"

C8_Witness ==
    \E c \in Calls :
        /\ Got2xx(c, Absent)
        /\ retry[c] = 0
        /\ resp[c].body.x = "1"
        /\ result[c] = KeyError

\* C9: a 404 on the final attempt, index 4, is not retried: the call ends
\* with the HTTP-status error carrying 404, after exactly 5 POSTs.
C9_FinalNotFoundRaises ==
    \A c \in Calls :
        (Handled(c) /\ retry[c] = 4 /\ resp[c].status = 404) =>
            /\ pc[c] = "done"
            /\ result[c] = HTTPStatusError(404)
            /\ posts[c] = 5

C9_Witness ==
    \E c \in Calls :
        /\ pc[c] = "done"
        /\ retry[c] = 4
        /\ resp[c].status = 404
        /\ result[c] = HTTPStatusError(404)
        /\ posts[c] = 5
        /\ waits[c] = 4

\* C10: close() returns with its task only scheduled and the session as it
\* was; an await_closed() that finds a closing task returns only once the
\* session is closed; an await_closed() that finds none returns at once and
\* leaves the session and the tasks alone.
C10_CloseThenAwaitClosed ==
    [][/\ closing_task' # closing_task =>
              /\ tasks'[closing_task'] = "scheduled"
              /\ session' = session
       /\ (pcA' = "returned" /\ awaited' # 0) =>
              /\ tasks'[awaited'] = "done"
              /\ session' = "closed"
       /\ (nAwaits' # nAwaits /\ closing_task = 0) =>
              /\ pcA' = "returned"
              /\ awaited' = 0
              /\ session' = session
              /\ tasks' = tasks
      ]_vars

C10_Witness ==
    /\ pcA = "returned"
    /\ awaited # 0
    /\ awaited = closing_task
    /\ tasks[awaited] = "done"
    /\ session = "closed"

\* C11: the session is opened once, close of the session is begun at most
\* once whatever the sequence of close() and await_closed() calls, and
\* await_closed() does not return while a close that began is incomplete.
C11_ClosedAtMostOnce ==
    [][/\ session' = "open" => session \in {"none", "open"}
       /\ Cardinality({t \in 1 .. Len(tasks') : tasks'[t] # "scheduled"}) <= 1
       /\ (pcA' = "returned" /\ (pcA # "returned" \/ nAwaits' # nAwaits)) =>
              \A t \in 1 .. Len(tasks') : tasks'[t] # "running"
      ]_vars

C16_FixedBackoff ==
    [][\A c \in Calls :
          /\ waits'[c] = retry'[c]
          /\ waits'[c] <= 4
          /\ slept'[c] = waits'[c]
          /\ waits'[c] # waits[c] =>
                 /\ waits'[c] = waits[c] + 1
                 /\ slept'[c] = slept[c] + 1
                 /\ resp[c].status = 404
                 /\ retry[c] \in 0 .. 3
                 /\ posts'[c] = posts[c]
          /\ posts'[c] # posts[c] =>
                 /\ posts'[c] = posts[c] + 1
                 /\ waits[c] = posts[c]
      ]_vars

C16_Witness ==
    \E c \in Calls :
        /\ pc[c] = "done"
        /\ retry[c] = 4
        /\ waits[c] = 4
        /\ slept[c] = 4

\* Lines "404" written by call c.
Logged404(c) == Cardinality({k \in 1 .. Len(logs[c]) : logs[c][k] = "404"})

\* C17: with the empty id no logging action is made on any attempt; with a
\* non-empty id one entry is written for each retried 404.
C17_EmptyIdNeverLogs ==
    \A c \in Calls :
        /\ id[c] = "" => opens[c] = 0 /\ logs[c] = <<>>
        /\ id[c] # "" =>
               Logged404(c) = waits[c] + (IF pc[c] = "sleep" THEN 1 ELSE 0)

\* C18: with every POST answered and every sleep elapsing, a call that has
\* started ends, after at most 5 POSTs and 4 sleeps.
C18_FetchTerminates ==
    \A c \in Dispatching :
        /\ [](posts[c] <= 5 /\ waits[c] <= 4)
        /\ (pc[c] # "idle") ~> (pc[c] = "done")

C18_Witness ==
    \E c \in Dispatching :
        /\ pc[c] = "done"
        /\ id[c] = "log"
        /\ posts[c] = 5
        /\ waits[c] = 4
        /\ resp[c].status = 404
        /\ Logged404(c) = 4

\* C19: a session is open only while a constructed handle owns it.
C19_NoSessionLeftOpen ==
    session \in {"open", "closing"} => handle = "ready"

\* Everything fetch keeps for call c.
CallState(c) ==
    <<pc[c], id[c], retry[c], posts[c], waits[c], slept[c], resp[c], decoded[c],
      opens[c], logs[c], result[c]>>

ConnectionsReturned ==
    binding = "get_connections" /\ bpc = "done" /\ bresult.kind = "return"

IsLowerHex(str) ==
    \A k \in 1 .. Len(str) : \E j \in 1 .. 16 : LowerDigits[j] = str[k]

C14_BindingsPropagate ==
    \A c \in Dispatching :
        /\ binding # "none" => fetchCalls = 1
        /\ bpc = "done" =>
               /\ result[c].kind # "return" =>
                      /\ bresult = Raises(result[c])
                      /\ nDecoded = 0
               /\ (result[c].kind = "return" /\ binding # "get_connections") =>
                      bresult = ReturnsEnvelope(resp[c].body)

C14_Witness ==
    \E c \in Dispatching :
        /\ bpc = "done"
        /\ binding = "stop_node"
        /\ result[c] = HTTPStatusError(500)
        /\ bresult = Raises(HTTPStatusError(500))

====
